---- MODULE Spec2Model ----
(***************************************************************************)
(* liionpack solvers: the pack co-simulation loop (generic_manager.solve), *)
(* the three worker-pool backends (casadi_manager, ray_manager,            *)
(* dask_manager) and the cell-model worker (generic_actor) with its event  *)
(* detector.                                                               *)
(*                                                                         *)
(* Conventions.  numpy arrays are functions on 0..n-1 (the code's 0-based  *)
(* indices); Python lists that are appended to (record_times, V_terminal)  *)
(* and the netlist rows are sequences.  None is the empty tuple << >>.     *)
(* Voltages are integers (volts); currents are integers in units of        *)
(* 1e-7 A, so the code's 1e-6 A threshold is 10.  A resistance is a        *)
(* record [n, d, e] standing for (n/d) * 10^e ohm.  Times are binary       *)
(* floating-point numbers with a mantissa of Prec bits (a Python float     *)
(* has 53), written as integers in units of the smallest period: every     *)
(* sum and product of times is rounded to nearest, ties to even, as the    *)
(* code's float arithmetic rounds it.                                      *)
(***************************************************************************)
EXTENDS Integers, Sequences, FiniteSets, TLC

(* ------------------------------ bounds -------------------------------- *)
MaxCells == 3
MaxProc == 3
MaxSteps == 3
\* the length of the long protocols and the mantissa bits of a time
LongSteps == 6
Prec == 4
\* cells and workers of the partition-only specification SpecSplit
MaxSplit == 6
\* cells of the actor, and step calls per setup, of the detector-only
\* specification SpecEvents
EvCells == 2
MaxCalls == 3
NEvents == 2
\* cells, and the largest current (1e-7 A), of the resistance-only
\* specification SpecRi
RiCells == 2
MaxAmp == 11

\* calls of solve on one manager, in the repeated-solve specification
\* SpecAgain
MaxSolves == 2

(* --------------------------- program constants ------------------------ *)
\* solvers.py:191  np.abs(i_app) < 1e-6, in units of 1e-7 A
ICutoff == 10

\* solvers.py:192  temp_Ri[current_cutoff] = 1e-12
RiFloor == [n |-> 1, d |-> 1, e |-> -12]

None == << >>

(* ------------------------------ helpers ------------------------------- *)
\* the spacing of the floating-point numbers around x >= 0
RECURSIVE Ulp(_)
Ulp(x) == IF x < 2 ^ Prec THEN 1 ELSE 2 * Ulp(x \div 2)

\* the floating-point number nearest to the real x >= 0, ties to even: the
\* value of a float sum or product whose exact result is x
FRound(x) ==
  LET u == Ulp(x)
      q == x \div u
      r == x % u
  IN  IF 2 * r < u \/ (2 * r = u /\ q % 2 = 0) THEN q * u ELSE (q + 1) * u

Range0(n) == 0 .. (n - 1)

Size(a) == Cardinality(DOMAIN a)

Abs(x) == IF x < 0 THEN -x ELSE x

MinOf(S) == CHOOSE x \in S : \A y \in S : x <= y

\* np.sign
Sign(x) == IF x > 0 THEN 1 ELSE IF x < 0 THEN -1 ELSE 0

RECURSIVE Gcd(_, _)
Gcd(a, b) == IF b = 0 THEN a ELSE Gcd(b, a % b)

\* a / b of two integers (current in 1e-7 A), as an exact resistance in ohm;
\* a zero divisor gives numpy's inf / nan, kept as d = 0
Quot(a, b) ==
  IF b = 0 THEN [n |-> Sign(a), d |-> 0, e |-> 7]
  ELSE LET g == Gcd(Abs(a), Abs(b))
           s == IF b < 0 THEN -1 ELSE 1
       IN  [n |-> (s * a) \div g, d |-> (s * b) \div g, e |-> 7]

\* np.arange(n)
Arange(n) == [j \in Range0(n) |-> j]

\* sizes and offsets of np.array_split(ary, k): the first (n % k) sections
\* have n \div k + 1 elements, the others n \div k; offsets are the cumsum
SectionSize(n, k, i) == IF i < n % k THEN n \div k + 1 ELSE n \div k

RECURSIVE DivPoint(_, _, _)
DivPoint(n, k, i) ==
  IF i = 0 THEN 0 ELSE DivPoint(n, k, i - 1) + SectionSize(n, k, i - 1)

\* np.array_split(ary, k)
ArraySplit(ary, k) ==
  [i \in Range0(k) |->
     [j \in Range0(SectionSize(Size(ary), k, i)) |->
        ary[DivPoint(Size(ary), k, i) + j]]]

\* str.find(sub) on a string held as a sequence of characters
StrFind(s, sub) ==
  LET hits == {i \in 0 .. (Len(s) - Len(sub)) :
                 SubSeq(s, i + 1, i + Len(sub)) = sub}
  IN  IF hits = {} THEN -1 ELSE MinOf(hits)

\* netlist["desc"].str.find(pat) > -1 : the set of selected row numbers
DescMap(nl, pat) == {r \in 1 .. Len(nl) : StrFind(nl[r].desc, pat) > -1}

\* position of row r among the selected rows
Rank(map, r) == Cardinality({q \in map : q < r})

\* netlist[map] rows, in row order, as a 0-based array of row numbers
MapRows(map) == [k \in Range0(Cardinality(map)) |->
                   CHOOSE r \in map : Rank(map, r) = k]

\* netlist.loc[map, "value"] = arr  (arr is aligned with the selected rows)
LocSetArray(nl, map, arr) ==
  [r \in 1 .. Len(nl) |->
     IF r \in map THEN [nl[r] EXCEPT !.value = arr[Rank(map, r)]] ELSE nl[r]]

\* mutant of LocSetScalar: the column is not named (netlist.loc[map] = x), so
\* the numeric columns of the selected rows are all overwritten
LocSetScalarRow(nl, map, x) ==
  [r \in 1 .. Len(nl) |->
     IF r \in map THEN [nl[r] EXCEPT !.value = x, !.node1 = x, !.node2 = x]
     ELSE nl[r]]

\* netlist.loc[map, "value"] = x  (a scalar, broadcast)
LocSetScalar(nl, map, x) ==
  [r \in 1 .. Len(nl) |->
     IF r \in map THEN [nl[r] EXCEPT !.value = x] ELSE nl[r]]

(* ---------- external collaborators (not part of solvers.py) ----------- *)
\* the fixed resistor-network layout handed to solve: per cell a busbar
\* resistor, a voltage source and an internal resistor, then one current
\* source between the terminal node 1 and ground 0
Digit(c) == <<"0", "1", "2", "3", "4", "5", "6", "7", "8", "9">>[c + 1]

CellRows(c) ==
  << [desc |-> <<"R", "b", "p", Digit(c)>>, node1 |-> 1, node2 |-> 2 * c + 2,
      value |-> [n |-> 1, d |-> 1000, e |-> 0]],
     [desc |-> <<"V", Digit(c)>>, node1 |-> 2 * c + 2, node2 |-> 2 * c + 3,
      value |-> 4],
     [desc |-> <<"R", "i", Digit(c)>>, node1 |-> 2 * c + 3, node2 |-> 0,
      value |-> [n |-> 1, d |-> 100, e |-> 0]] >>

RECURSIVE CellsRows(_)
CellsRows(n) == IF n = 0 THEN << >> ELSE CellsRows(n - 1) \o CellRows(n - 1)

MakeNetlist(n, i0) ==
  CellsRows(n) \o << [desc |-> <<"I", "0">>, node1 |-> 1, node2 |-> 0, value |-> i0] >>

RECURSIVE SumTo(_, _)
SumTo(f, n) == IF n = 0 THEN 0 ELSE SumTo(f, n - 1) + f[n - 1]

\* lp.solve_circuit_vectorized: a pure function of the netlist giving the
\* node voltages and the branch current of every battery (one fixed
\* function; a rest period gives sub-threshold balancing currents)
SolveCircuit(nl) ==
  LET vr == MapRows(DescMap(nl, <<"V">>))
      rr == MapRows(DescMap(nl, <<"R", "i">>))
      ir == MapRows(DescMap(nl, <<"I">>))
      n == Size(vr)
      isrc == nl[ir[0]].value
      ocv == [c \in Range0(n) |-> nl[vr[c]].value]
      rcode == [c \in Range0(n) |->
                  LET r == nl[rr[c]].value
                  IN  IF r.e = -12 THEN 1 ELSE (Abs(r.n) + r.d) % 3]
      nodes == {0} \cup {nl[r].node1 : r \in 1 .. Len(nl)}
                   \cup {nl[r].node2 : r \in 1 .. Len(nl)}
  IN  [I_batt |-> [c \in Range0(n) |->
                     -((isrc \div n) + 5 * ((ocv[c] + c + SumTo(ocv, n)) % 3)
                       - 5 * rcode[c])],
       V_node |-> [k \in nodes |-> (SumTo(ocv, n) + (isrc \div 10) + k) % 9]]

\* one integration step of one cell (solver_utils._serial_step /
\* _mapped_step apply it to every cell of the worker): a deterministic
\* function of the cell's state, its current and its heat-transfer coefficient
CellStep(s, I, h) == (s + (I \div 10) - h) % 10

\* variables_fn: an output variable of a cell, from the cell's state
VarValue(name, s) ==
  IF name = "Terminal voltage [V]" THEN s
  ELSE IF name = "Measured battery open circuit voltage [V]" THEN s + 1 + (s % 2)
  ELSE 20 + s

\* events_fn: the event indicators of a cell, from the cell's state (two
\* thresholds on the state, away from the voltage cut-offs)
Indicator(e, s) == IF e % 2 = 0 THEN s - 5 ELSE 3 - s

(* ----------------------------- generic_actor -------------------------- *)
\* generic_actor.__init__: an actor whose setup has not run
NewActor ==
  [ready |-> FALSE, step_solutions |-> None, soc |-> 0, mapped |-> FALSE,
   I_init |-> 0, htc_init |-> 0, variable_names |-> None,
   var_eval |-> None, events_eval |-> None,
   last_events |-> None, event_change |-> None,
   nsteps |-> 0, ret |-> FALSE]

\* generic_actor.setup
ActorSetup(a, Nspm, I_init, htc_init, variable_names, initial_soc, nproc) ==
  [a EXCEPT !.ready = TRUE,
            !.mapped = (nproc > 1),
            !.step_solutions = [j \in Range0(Nspm) |-> None],
            !.soc = initial_soc,
            !.I_init = I_init,
            !.htc_init = htc_init,
            !.variable_names = variable_names,
            !.last_events = None,
            !.event_change = None,
            !.nsteps = 0]

\* the state a cell is stepped from: its last solution, or the initial
\* concentration set from initial_soc when it has none yet
CellState(a, j) ==
  IF a.step_solutions[j] = None THEN a.soc ELSE a.step_solutions[j][1]

\* self.step_fn(...): the new solutions, the evaluated variables and the
\* evaluated event indicators
StepFn(a, inputs) ==
  LET n == Size(a.step_solutions)
      nxt == [j \in Range0(n) |->
                CellStep(CellState(a, j), inputs[j].Current, inputs[j].htc)]
  IN  [step_solutions |-> [j \in Range0(n) |-> <<nxt[j]>>],
       var_eval |-> [v \in Range0(Len(a.variable_names)) |->
                       [j \in Range0(n) |-> VarValue(a.variable_names[v + 1], nxt[j])]],
       events_eval |-> [e \in Range0(NEvents) |->
                          [j \in Range0(n) |-> Indicator(e, nxt[j])]]]

\* mutant of EventChange: an indicator at exactly zero counts as a crossing
EventChangeOrZero(last, new) ==
  [e \in DOMAIN new |->
     [c \in DOMAIN new[e] |-> Sign(last[e][c]) * Sign(new[e][c]) <= 0]]

\* (old_sign * new_sign) < 0, elementwise
EventChange(last, new) ==
  [e \in DOMAIN new |->
     [c \in DOMAIN new[e] |-> Sign(last[e][c]) * Sign(new[e][c]) < 0]]

\* np.any of a boolean matrix
AnyTrue(m) == \E e \in DOMAIN m : \E c \in DOMAIN m[e] : m[e][c]

\* mutant of check_events: the stored vector is kept when an event is reported
CheckEventsKeep(a) ==
  IF a.last_events # None
  THEN LET ch == EventChange(a.last_events, a.events_eval)
       IN  [actor |-> [a EXCEPT !.event_change = ch,
                                !.last_events = IF AnyTrue(ch) THEN @
                                                ELSE a.events_eval],
            ret |-> AnyTrue(ch)]
  ELSE [actor |-> [a EXCEPT !.last_events = a.events_eval], ret |-> FALSE]

\* generic_actor.check_events: the actor after the call and the returned flag
CheckEvents(a) ==
  IF a.last_events # None
  THEN LET ch == EventChange(a.last_events, a.events_eval)
       IN  [actor |-> [a EXCEPT !.event_change = ch,
                                !.last_events = a.events_eval],
            ret |-> AnyTrue(ch)]
  ELSE [actor |-> [a EXCEPT !.last_events = a.events_eval], ret |-> FALSE]

\* generic_actor.step when step_fn returns r; nsteps counts the completed
\* step calls and ret keeps the returned flag
StepWith(a, r) ==
  LET c == CheckEvents([a EXCEPT !.step_solutions = r.step_solutions,
                                 !.var_eval = r.var_eval,
                                 !.events_eval = r.events_eval])
  IN  [c.actor EXCEPT !.nsteps = @ + 1, !.ret = c.ret]

\* generic_actor.step
ActorStep(a, inputs) == StepWith(a, StepFn(a, inputs))

\* generic_actor.output
ActorOutput(a) == a.var_eval

(* ------------------------------ utils.py ------------------------------ *)
\* build_inputs_dict: one inputs dictionary per battery
BuildInputsDict(I_batt, htc) ==
  [i \in Range0(Size(I_batt)) |-> [Current |-> I_batt[i], htc |-> htc[i]]]

(* --------------------------- generic_manager -------------------------- *)
\* A solve state S is a record [self, loc, netlist, actors]: the manager
\* object, the local variables of solve, the caller's netlist (mutated in
\* place) and the actor objects; args are the arguments of solve.

\* generic_manager.__init__: a manager before solve is called
NewManager ==
  [htc |-> None, split_index |-> None, spm_per_worker |-> None, dt |-> 0,
   variable_names |-> None, shm_i_app |-> None, output |-> None,
   timestep |-> 0, all_output |-> None]

NewLocals ==
  [Ri_map |-> {}, V_map |-> {}, I_map |-> {}, Terminal_Node |-> None,
   Nspm |-> 0, Nsteps |-> 0, V_node |-> None, I_batt |-> None,
   time |-> 0, end_time |-> 0, V_terminal |-> << >>, record_times |-> << >>,
   step |-> 0, inputs |-> None, events |-> None, get_i |-> 0,
   raised |-> "none"]

\* mutant of actor_i_app: the actor's cells are taken to be the first ones
ActorIAppLocal(slf, index) ==
  [j \in DOMAIN slf.split_index[index] |-> slf.shm_i_app[slf.timestep][j]]

\* generic_manager.actor_i_app
ActorIApp(slf, index) ==
  [j \in DOMAIN slf.split_index[index] |->
     slf.shm_i_app[slf.timestep][slf.split_index[index][j]]]

\* mutant of actor_htc: every actor gets the coefficients of the first
ActorHtcFirst(slf, index) == slf.htc[0]

\* generic_manager.actor_htc
ActorHtc(slf, index) == slf.htc[index]

\* generic_manager.build_inputs
BuildInputs(slf, nactors) ==
  [i \in Range0(nactors) |-> BuildInputsDict(ActorIApp(slf, i), ActorHtc(slf, i))]

\* mutant of RaySplitModels: equal sections only, the remainder is dropped
RaySplitModelsEven(slf, Nspm, nproc, htc) ==
  LET si == ArraySplit(Arange(Nspm - (Nspm % nproc)), nproc)
  IN  [slf EXCEPT !.htc = ArraySplit(htc, nproc),
                  !.split_index = si,
                  !.spm_per_worker = [i \in DOMAIN si |-> Size(si[i])]]

\* ray_manager.split_models
RaySplitModels(slf, Nspm, nproc, htc) ==
  LET si == ArraySplit(Arange(Nspm), nproc)
  IN  [slf EXCEPT !.htc = ArraySplit(htc, nproc),
                  !.split_index = si,
                  !.spm_per_worker = [i \in DOMAIN si |-> Size(si[i])]]

\* dask_manager.split_models
DaskSplitModels(slf, Nspm, nproc, htc) ==
  LET si == ArraySplit(Arange(Nspm), nproc)
  IN  [slf EXCEPT !.htc = ArraySplit(htc, nproc),
                  !.split_index = si,
                  !.spm_per_worker = [i \in DOMAIN si |-> Size(si[i])]]

\* casadi_manager.split_models
CasadiSplitModels(slf, Nspm, nproc, htc) ==
  [slf EXCEPT !.spm_per_worker = Nspm,
              !.split_index = ArraySplit(Arange(Nspm), 1),
              !.htc = ArraySplit(htc, 1)]

SplitModels(backend, slf, Nspm, nproc, htc) ==
  IF backend = "ray" THEN RaySplitModels(slf, Nspm, nproc, htc)
  ELSE IF backend = "dask" THEN DaskSplitModels(slf, Nspm, nproc, htc)
  ELSE CasadiSplitModels(slf, Nspm, nproc, htc)

\* solve, lines 144-153: the two fixed names, then every requested name
\* that is not yet in the list
RECURSIVE AddNames(_, _)
AddNames(names, outs) ==
  IF outs = << >> THEN names
  ELSE AddNames(IF \E k \in 1 .. Len(names) : names[k] = Head(outs)
                THEN names ELSE Append(names, Head(outs)),
                Tail(outs))

VariableNames(output_variables) ==
  AddNames(<<"Terminal voltage [V]", "Measured battery open circuit voltage [V]">>,
           output_variables)

\* np.zeros([rows, cols])
Zeros2(rows, cols) == [r \in Range0(rows) |-> [c \in Range0(cols) |-> 0]]

\* mutant of Negated: the branch currents are stored with their own sign
NegatedNot(arr) == arr

Negated(arr) == [c \in DOMAIN arr |-> arr[c] * (-1)]

\* solve, lines 121-170: everything before setup_actors
SolvePrologue(S, args) ==
  LET nl == S.netlist
      V_map == DescMap(nl, <<"V">>)
      I_map == DescMap(nl, <<"I">>)
      Nspm == Cardinality(V_map)
      Nsteps == Size(args.protocol)
      names == VariableNames(args.output_variables)
      sol == SolveCircuit(nl)
      shm0 == Zeros2(Nsteps, Nspm)
      slf == SplitModels(args.backend, S.self, Nspm, args.nproc, args.htc)
  IN  [S EXCEPT
         !.self = [slf EXCEPT
                     !.dt = args.dt,
                     !.variable_names = names,
                     !.shm_i_app = [shm0 EXCEPT ![0] = Negated(sol.I_batt)],
                     !.output = [v \in Range0(Len(names)) |-> Zeros2(Nsteps, Nspm)],
                     !.timestep = 0],
         !.loc = [NewLocals EXCEPT
                     !.Ri_map = DescMap(nl, <<"R", "i">>),
                     !.V_map = V_map,
                     !.I_map = I_map,
                     !.Terminal_Node = [k \in Range0(Cardinality(I_map)) |->
                                          nl[MapRows(I_map)[k]].node1],
                     !.Nspm = Nspm,
                     !.Nsteps = Nsteps,
                     !.V_node = sol.V_node,
                     !.I_batt = sol.I_batt,
                     !.time = 0,
                     !.end_time = FRound(args.dt * Nsteps),
                     !.V_terminal = << >>,
                     !.record_times = << >>]]

\* mutant of TempRi: the floor is also taken at the threshold itself
TempRiInclusive(temp_ocv, temp_v, i_app) ==
  [c \in DOMAIN i_app |->
     IF Abs(i_app[c]) <= ICutoff THEN RiFloor
     ELSE Quot(temp_ocv[c] - temp_v[c], i_app[c])]

\* temp_Ri of solve, lines 185-192
TempRi(temp_ocv, temp_v, i_app) ==
  [c \in DOMAIN i_app |->
     IF Abs(i_app[c]) < ICutoff THEN RiFloor
     ELSE Quot(temp_ocv[c] - temp_v[c], i_app[c])]

\* solve, lines 206-211: a voltage limit is reached
Breached(temp_v, v_cut_lower, v_cut_higher) ==
  \/ \E c \in DOMAIN temp_v : temp_v[c] < v_cut_lower
  \/ \E c \in DOMAIN temp_v : temp_v[c] > v_cut_higher

\* solve, lines 182-213: the rest of the loop body after get_actor_output.
\* loc.next says where control goes: "loop" (next iteration), "finalize"
\* (break, or the protocol is exhausted) or "failed" (an index error)
LoopBody(S, args) ==
  LET slf == S.self
      loc == S.loc
      step == loc.step
      time == FRound(loc.time + slf.dt)
      temp_v == slf.output[0][step]
      temp_ocv == slf.output[1][step]
      temp_Ri == TempRi(temp_ocv, temp_v, slf.shm_i_app[step])
      nl == LocSetScalar(
              LocSetArray(LocSetArray(S.netlist, loc.V_map, temp_ocv),
                          loc.Ri_map, temp_Ri),
              loc.I_map, args.protocol[step])
      rec == time <= loc.end_time
      sol == IF rec THEN SolveCircuit(nl)
             ELSE [V_node |-> loc.V_node, I_batt |-> loc.I_batt]
      ahead == time < loc.end_time
      oob == ahead /\ step + 1 \notin DOMAIN slf.shm_i_app
      brk == Breached(temp_v, args.v_cut_lower, args.v_cut_higher)
      loc1 == [loc EXCEPT
                 !.time = time,
                 !.V_node = sol.V_node,
                 !.I_batt = sol.I_batt,
                 !.record_times = IF rec THEN Append(@, time) ELSE @,
                 !.V_terminal = IF rec
                                THEN Append(@, sol.V_node[loc.Terminal_Node[0]])
                                ELSE @]
  IN  IF oob
      THEN [S EXCEPT !.netlist = nl,
                     !.loc = [loc1 EXCEPT !.raised = "index"]]
      ELSE [S EXCEPT
              !.netlist = nl,
              !.self = [slf EXCEPT
                          !.shm_i_app = IF ahead
                                        THEN [@ EXCEPT ![step + 1] = Negated(sol.I_batt)]
                                        ELSE @,
                          !.timestep = IF brk THEN @ ELSE @ + 1],
              !.loc = [loc1 EXCEPT
                          !.step = IF ~brk /\ step + 1 < loc.Nsteps
                                   THEN step + 1 ELSE step]]

\* whether the for loop runs another iteration after LoopBody took S to T
LoopContinues(S, T) == T.loc.step # S.loc.step

\* result[: step + 1] of an array of rows
Rows(arr, k) == [r \in Range0(k) |-> arr[r]]

\* solve, lines 216-223: the named result series
Collected(S, args) ==
  LET n == S.loc.step + 1
      names == S.self.variable_names
      base == [k \in {"Time [s]", "Pack current [A]",
                      "Pack terminal voltage [V]", "Cell current [A]"} |->
                 IF k = "Time [s]" THEN S.loc.record_times
                 ELSE IF k = "Pack current [A]" THEN Rows(args.protocol, n)
                 ELSE IF k = "Pack terminal voltage [V]" THEN S.loc.V_terminal
                 ELSE Rows(S.self.shm_i_app, n)]
  IN  [k \in DOMAIN base \cup {names[j] : j \in 1 .. Len(names)} |->
         IF \E j \in 1 .. Len(names) : names[j] = k
         THEN Rows(S.self.output[(CHOOSE j \in 1 .. Len(names) : names[j] = k) - 1], n)
         ELSE base[k]]

(* --------------------------- casadi_manager --------------------------- *)
\* casadi_manager.setup_actors: one local actor holding every cell
CasadiSetupActors(S, args) ==
  [S EXCEPT !.actors =
     [i \in Range0(1) |->
        ActorSetup(NewActor, S.self.spm_per_worker, S.self.shm_i_app[0][0],
                   args.htc[0], S.self.variable_names, args.initial_soc,
                   args.nproc)]]

\* casadi_manager.step_actors: the synchronous step of the one actor
CasadiStepActors(S) ==
  LET a == ActorStep(S.actors[0], BuildInputs(S.self, Size(S.actors))[0])
  IN  [S EXCEPT !.actors[0] = a,
                !.loc.events = [i \in Range0(1) |-> a.ret]]

\* casadi_manager.get_actor_output
CasadiGetActorOutput(S) ==
  LET out == ActorOutput(S.actors[0])
      step == S.loc.step
  IN  [S EXCEPT !.self.output =
         [v \in DOMAIN @ |-> [@[v] EXCEPT ![step] = out[v]]]]

\* casadi_manager: the loop of solve from the state S on, step after step
RECURSIVE CasadiLoop(_, _)
CasadiLoop(S, args) ==
  LET T == LoopBody(CasadiGetActorOutput(CasadiStepActors(S)), args)
  IN  IF T.loc.raised = "none" /\ LoopContinues(S, T)
      THEN CasadiLoop(T, args) ELSE T

\* casadi_manager: the result of solve on the arguments args
CasadiSolve(args) ==
  LET a == [args EXCEPT !.backend = "casadi"]
      S0 == [self |-> NewManager, loc |-> NewLocals, netlist |-> a.netlist,
             actors |-> << >>]
  IN  Collected(CasadiLoop(CasadiSetupActors(SolvePrologue(S0, a), a), a), a)

(* ---------------------- ray_manager / dask_manager -------------------- *)
\* ray_manager.setup_actors, lines 282-284: the actor handles
RayCreateActors(S, nproc) == [S EXCEPT !.actors = [i \in Range0(nproc) |-> NewActor]]

\* dask_manager.setup_actors, lines 423-427
DaskCreateActors(S, nproc) == [S EXCEPT !.actors = [i \in Range0(nproc) |-> NewActor]]

\* a.setup(...) of actor i as dispatched by setup_actors (nproc = 1)
RemoteSetup(S, args, i) ==
  ActorSetup(S.actors[i], S.self.spm_per_worker[i], S.self.shm_i_app[0][0],
             args.htc[0], S.self.variable_names, args.initial_soc, 1)

\* mutant of WriteSlice: out is written to the first columns
WriteSliceFront(output, step, index, out) ==
  [v \in DOMAIN output |->
     [output[v] EXCEPT ![step] =
        [c \in DOMAIN @ |-> IF c \in DOMAIN index THEN out[v][c] ELSE @[c]]]]

\* self.output[:, step, self.split_index[i]] = out
WriteSlice(output, step, index, out) ==
  [v \in DOMAIN output |->
     [output[v] EXCEPT ![step] =
        [c \in DOMAIN @ |->
           IF \E j \in DOMAIN index : index[j] = c
           THEN out[v][CHOOSE j \in DOMAIN index : index[j] = c]
           ELSE @[c]]]]

\* mutant of AnyEvent: np.all instead of np.any
AllEvents(events) == \A i \in DOMAIN events : events[i]

\* np.any(events) of the gathered flags
AnyEvent(events) == \E i \in DOMAIN events : events[i]

\* ray_manager.cleanup: kill every actor, shut Ray down
RayCleanup(rt) == [rt EXCEPT !.live = {}, !.ray = FALSE, !.cleanups = @ + 1]

\* dask_manager.cleanup: shut the client (and its workers) down
DaskCleanup(rt) == [rt EXCEPT !.live = {}, !.client = "closed", !.cleanups = @ + 1]

\* ray_manager.cleanup, lines 333-334, when ray.kill raises on actor j: the
\* actors before j are dead, the loop is left and Ray is not shut down
RayCleanupFailed(rt, j) == [rt EXCEPT !.live = {i \in @ : i >= j}]

\* dask_manager.cleanup, line 479, when client.shutdown() raises
DaskCleanupFailed(rt) == rt

\* casadi_manager.cleanup
CasadiCleanup(rt) == [rt EXCEPT !.cleanups = @ + 1]

Cleanup(backend, rt) ==
  IF backend = "ray" THEN RayCleanup(rt)
  ELSE IF backend = "dask" THEN DaskCleanup(rt)
  ELSE CasadiCleanup(rt)

(* -------------------------------- state ------------------------------- *)
VARIABLES
  inp,            \* the arguments of solve (the netlist as it was supplied)
                  \* and the backend of the manager
  netlist,        \* the caller's netlist, mutated in place by solve
  self,           \* the manager object
  loc,            \* the local variables of solve
  actors,         \* the actor objects, by worker number
  setup_futures,  \* setup_actors: the setup call of each actor
  future_steps,   \* step_actors: the step call of each actor
  futures,        \* get_actor_output: the output call of each actor
  runtime,        \* the parallel runtime: Ray, the dask client, live actors
  log,            \* the warnings logged by step_actors
  pc              \* where solve is

vars == <<inp, netlist, self, loc, actors, setup_futures, future_steps,
          futures, runtime, log, pc>>

Backends == {"casadi", "ray", "dask"}

Remote == inp.backend \in {"ray", "dask"}

\* the current solve state, and the assignment of one
Cur == [self |-> self, loc |-> loc, netlist |-> netlist, actors |-> actors]

Becomes(S) ==
  /\ self' = S.self
  /\ loc' = S.loc
  /\ netlist' = S.netlist
  /\ actors' = S.actors

\* one call sent to every actor: a future per actor, not yet resolved
Dispatched(val) == [i \in DOMAIN actors |-> [st |-> "pending", val |-> val]]

\* mutant of Raises: the error of a failed call is swallowed
RaisesNever(f) == FALSE

\* ray.get(f) / f.result() raises when the call behind the future failed
Raises(f) == f.st = "err"

\* mutant of Gathered: only the first future is waited for
GatheredFirst(k, futs) == k >= 1

\* the list comprehension over the futures has waited for every one of them
Gathered(k, futs) == k = Size(futs)

\* the heat-transfer coefficients handed to solve: uniform, or one per cell
HtcChoices(n) == {[c \in Range0(n) |-> 1], [c \in Range0(n) |-> c + 1]}

\* the protocols: every sequence of 1..MaxSteps setpoints (rest or discharge)
Protocols == UNION {[Range0(n) -> {0, 30}] : n \in 1 .. MaxSteps}

\* the long protocols: a discharge of a steps, then rest
LongProtocols ==
  {[r \in Range0(LongSteps) |-> IF r < a THEN 30 ELSE 0] : a \in 0 .. LongSteps}

\* the periods of the long protocols: one whose multiples are all floats and
\* two whose multiples are not (as 1 s, 0.1 s and 0.7 s are for a Python
\* float)
Periods == {1, 5, 7}

\* a manager of some backend has been constructed; solve has not been called
InitWith(cells, procs, protos, dts) ==
  /\ \E b \in Backends, n \in cells, w \in procs, p \in protos, d \in dts :
       \E h \in HtcChoices(n) :
         /\ inp = [backend |-> b, netlist |-> MakeNetlist(n, 30),
                   nproc |-> w, htc |-> h, protocol |-> p,
                   dt |-> d, initial_soc |-> 4,
                   output_variables |-> <<"Terminal voltage [V]",
                                          "Cell temperature [K]">>,
                   v_cut_lower |-> 2, v_cut_higher |-> 7]
         /\ netlist = MakeNetlist(n, 30)
         \* ray_manager.__init__ calls ray.init()
         /\ runtime = [ray |-> (b = "ray"), client |-> "none", live |-> {},
                       cleanups |-> 0]
  /\ self = NewManager
  /\ loc = NewLocals
  /\ setup_futures = << >>
  /\ future_steps = << >>
  /\ futures = << >>
  /\ log = << >>

Init ==
  /\ \/ InitWith(1 .. MaxCells, 1 .. MaxProc, Protocols, {1})
     \/ InitWith(1 .. MaxCells, 1 .. MaxProc, LongProtocols, Periods)
  /\ actors = << >>
  /\ pc = "idle"

(* ------------------------------- actions ------------------------------ *)
\* solve, lines 121-173, on casadi_manager: setup_actors is synchronous
CasadiSolveBegin ==
  /\ pc = "idle"
  /\ inp.backend = "casadi"
  /\ Becomes(CasadiSetupActors(SolvePrologue(Cur, inp), inp))
  /\ pc' = "loop"
  /\ UNCHANGED <<inp, setup_futures, future_steps, futures, runtime, log>>

\* solve, lines 121-173, on ray_manager up to the dispatch of the setup calls
RaySolveBegin ==
  /\ pc = "idle"
  /\ inp.backend = "ray"
  /\ runtime.ray
  /\ Becomes(RayCreateActors(SolvePrologue(Cur, inp), inp.nproc))
  /\ setup_futures' = [i \in Range0(inp.nproc) |-> [st |-> "pending", val |-> None]]
  /\ runtime' = [runtime EXCEPT !.live = Range0(inp.nproc)]
  /\ pc' = "setup_wait"
  /\ UNCHANGED <<inp, future_steps, futures, log>>

\* solve, lines 121-173, on dask_manager: the client is created here
DaskSolveBegin ==
  /\ pc = "idle"
  /\ inp.backend = "dask"
  /\ Becomes(DaskCreateActors(SolvePrologue(Cur, inp), inp.nproc))
  /\ setup_futures' = [i \in Range0(inp.nproc) |-> [st |-> "pending", val |-> None]]
  /\ runtime' = [runtime EXCEPT !.client = "up", !.live = Range0(inp.nproc)]
  /\ pc' = "setup_wait"
  /\ UNCHANGED <<inp, future_steps, futures, log>>

\* actor i runs its setup call
WorkerSetup(i) ==
  /\ setup_futures[i].st = "pending"
  /\ actors' = [actors EXCEPT ![i] = RemoteSetup(Cur, inp, i)]
  /\ setup_futures' = [setup_futures EXCEPT ![i].st = "ok"]
  /\ UNCHANGED <<inp, netlist, self, loc, future_steps, futures, runtime, log, pc>>

\* the setup call of actor i raises
WorkerSetupFail(i) ==
  /\ setup_futures[i].st = "pending"
  /\ setup_futures' = [setup_futures EXCEPT ![i].st = "err"]
  /\ UNCHANGED <<inp, netlist, self, loc, actors, future_steps, futures,
                 runtime, log, pc>>

\* setup_actors, lines 301 / 444: the futures are waited for in order and
\* the first failed one raises to solve
SetupGatherFail ==
  /\ pc = "setup_wait"
  /\ \E i \in DOMAIN setup_futures :
       /\ Raises(setup_futures[i])
       /\ \A j \in DOMAIN setup_futures : j < i => setup_futures[j].st = "ok"
  /\ loc' = [loc EXCEPT !.raised = "setup"]
  /\ pc' = "failed"
  /\ UNCHANGED <<inp, netlist, self, actors, setup_futures, future_steps,
                 futures, runtime, log>>

\* mutant of SetupGather: only the first setup future is waited for
SetupGatherFirst ==
  /\ pc = "setup_wait"
  /\ setup_futures[0].st = "ok"
  /\ pc' = "loop"
  /\ UNCHANGED <<inp, netlist, self, loc, actors, setup_futures, future_steps,
                 futures, runtime, log>>

\* setup_actors, lines 301 / 444: every setup future has been waited for
SetupGather ==
  /\ pc = "setup_wait"
  /\ \A i \in DOMAIN setup_futures : setup_futures[i].st = "ok"
  /\ pc' = "loop"
  /\ UNCHANGED <<inp, netlist, self, loc, actors, setup_futures, future_steps,
                 futures, runtime, log>>

\* the warning of step_actors for the current timestep
Warned(lg, flag, k) == IF flag THEN Append(lg, k) ELSE lg

\* casadi_manager.step_actors
CasadiStep ==
  /\ pc = "loop"
  /\ inp.backend = "casadi"
  /\ LET T == CasadiStepActors(Cur)
     IN  /\ Becomes(T)
         /\ log' = Warned(log, T.loc.events[0], self.timestep)
  /\ pc' = "output"
  /\ UNCHANGED <<inp, setup_futures, future_steps, futures, runtime>>

\* casadi_manager.step_actors when the integration of the step fails
CasadiStepFail ==
  /\ pc = "loop"
  /\ inp.backend = "casadi"
  /\ loc' = [loc EXCEPT !.raised = "step"]
  /\ pc' = "failed"
  /\ UNCHANGED <<inp, netlist, self, actors, setup_futures, future_steps,
                 futures, runtime, log>>

\* casadi_manager.get_actor_output
CasadiOutput ==
  /\ pc = "output"
  /\ inp.backend = "casadi"
  /\ Becomes(CasadiGetActorOutput(Cur))
  /\ pc' = "body"
  /\ UNCHANGED <<inp, setup_futures, future_steps, futures, runtime, log>>

\* ray_manager / dask_manager.step_actors up to the dispatch of the steps
StepActorsDispatch ==
  /\ pc = "loop"
  /\ Remote
  /\ loc' = [loc EXCEPT !.inputs = BuildInputs(self, Size(actors)),
                        !.events = << >>,
                        !.get_i = 0]
  /\ future_steps' = Dispatched(FALSE)
  /\ pc' = "step_wait"
  /\ UNCHANGED <<inp, netlist, self, actors, setup_futures, futures, runtime, log>>

\* actor i runs the step call it was sent
WorkerStep(i) ==
  /\ future_steps[i].st = "pending"
  /\ LET a == ActorStep(actors[i], loc.inputs[i])
     IN  /\ actors' = [actors EXCEPT ![i] = a]
         /\ future_steps' = [future_steps EXCEPT ![i] = [st |-> "ok", val |-> a.ret]]
  /\ UNCHANGED <<inp, netlist, self, loc, setup_futures, futures, runtime, log, pc>>

\* the step call of actor i raises (the integration fails)
WorkerStepFail(i) ==
  /\ future_steps[i].st = "pending"
  /\ future_steps' = [future_steps EXCEPT ![i].st = "err"]
  /\ UNCHANGED <<inp, netlist, self, loc, actors, setup_futures, futures,
                 runtime, log, pc>>

\* step_actors, lines 313-315 / 456-458: the next future in order is waited
\* for; an error is raised to solve; after the last one the warning is logged
StepGet ==
  /\ pc = "step_wait"
  /\ future_steps[loc.get_i].st \in {"ok", "err"}
  /\ IF Raises(future_steps[loc.get_i])
     THEN /\ loc' = [loc EXCEPT !.raised = "step"]
          /\ pc' = "failed"
          /\ log' = log
     ELSE LET events == [i \in Range0(loc.get_i + 1) |->
                           IF i = loc.get_i THEN future_steps[i].val
                           ELSE loc.events[i]]
              last == Gathered(loc.get_i + 1, future_steps)
          IN  /\ loc' = [loc EXCEPT !.events = events, !.get_i = @ + 1]
              /\ pc' = IF last THEN "output" ELSE "step_wait"
              /\ log' = IF last THEN Warned(log, AnyEvent(events), self.timestep)
                        ELSE log
  /\ UNCHANGED <<inp, netlist, self, actors, setup_futures, future_steps,
                 futures, runtime>>

\* ray_manager / dask_manager.get_actor_output: the output calls are sent
OutputDispatch ==
  /\ pc = "output"
  /\ Remote
  /\ futures' = Dispatched(None)
  /\ loc' = [loc EXCEPT !.get_i = 0]
  /\ pc' = "output_wait"
  /\ UNCHANGED <<inp, netlist, self, actors, setup_futures, future_steps,
                 runtime, log>>

\* actor i runs the output call it was sent
WorkerOutput(i) ==
  /\ futures[i].st = "pending"
  /\ futures' = [futures EXCEPT ![i] = [st |-> "ok", val |-> ActorOutput(actors[i])]]
  /\ UNCHANGED <<inp, netlist, self, loc, actors, setup_futures, future_steps,
                 runtime, log, pc>>

\* the output call of actor i raises
WorkerOutputFail(i) ==
  /\ futures[i].st = "pending"
  /\ futures' = [futures EXCEPT ![i].st = "err"]
  /\ UNCHANGED <<inp, netlist, self, loc, actors, setup_futures, future_steps,
                 runtime, log, pc>>

\* get_actor_output, lines 324-326 / 469-471: the next output in order is
\* waited for and written into its slice of the output buffer
OutputGet ==
  /\ pc = "output_wait"
  /\ futures[loc.get_i].st \in {"ok", "err"}
  /\ IF Raises(futures[loc.get_i])
     THEN /\ loc' = [loc EXCEPT !.raised = "output"]
          /\ pc' = "failed"
          /\ self' = self
     ELSE /\ self' = [self EXCEPT !.output =
                        WriteSlice(@, loc.step, self.split_index[loc.get_i],
                                   futures[loc.get_i].val)]
          /\ loc' = [loc EXCEPT !.get_i = @ + 1]
          /\ pc' = IF Gathered(loc.get_i + 1, futures) THEN "body" ELSE "output_wait"
  /\ UNCHANGED <<inp, netlist, actors, setup_futures, future_steps, futures,
                 runtime, log>>

\* solve, lines 182-213
Body ==
  /\ pc = "body"
  /\ LET T == LoopBody(Cur, inp)
     IN  /\ Becomes(T)
         /\ pc' = IF T.loc.raised # "none" THEN "failed"
                  ELSE IF LoopContinues(Cur, T) THEN "loop"
                  ELSE "finalize"
  /\ UNCHANGED <<inp, setup_futures, future_steps, futures, runtime, log>>

\* solve, lines 214-233: cleanup, then the result is assembled and returned
Finalize ==
  /\ pc = "finalize"
  /\ runtime' = Cleanup(inp.backend, runtime)
  /\ self' = [self EXCEPT !.all_output = Collected(Cur, inp)]
  /\ pc' = "done"
  /\ UNCHANGED <<inp, netlist, loc, actors, setup_futures, future_steps,
                 futures, log>>

\* solve, line 215: cleanup raises (a kill or the shutdown fails); nothing
\* catches it, so solve raises and returns no result
FinalizeCleanupFail ==
  /\ pc = "finalize"
  /\ Remote
  /\ IF inp.backend = "ray"
     THEN \E j \in DOMAIN actors : runtime' = RayCleanupFailed(runtime, j)
     ELSE runtime' = DaskCleanupFailed(runtime)
  /\ loc' = [loc EXCEPT !.raised = "cleanup"]
  /\ pc' = "failed"
  /\ UNCHANGED <<inp, netlist, self, actors, setup_futures, future_steps,
                 futures, log>>

Next ==
  \/ CasadiSolveBegin
  \/ RaySolveBegin
  \/ DaskSolveBegin
  \/ \E i \in DOMAIN setup_futures : WorkerSetup(i)
  \/ \E i \in DOMAIN setup_futures : WorkerSetupFail(i)
  \/ SetupGatherFail
  \/ SetupGather
  \/ CasadiStep
  \/ CasadiStepFail
  \/ CasadiOutput
  \/ StepActorsDispatch
  \/ \E i \in DOMAIN future_steps : WorkerStep(i)
  \/ \E i \in DOMAIN future_steps : WorkerStepFail(i)
  \/ StepGet
  \/ OutputDispatch
  \/ \E i \in DOMAIN futures : WorkerOutput(i)
  \/ \E i \in DOMAIN futures : WorkerOutputFail(i)
  \/ OutputGet
  \/ Body
  \/ Finalize
  \/ FinalizeCleanupFail

Spec == Init /\ [][Next]_vars

(* ------------- solve called again on the same manager object ---------- *)
InitAgain ==
  /\ InitWith(1 .. MaxCells, 1 .. MaxProc, Protocols, {1})
  /\ actors = << >>
  /\ pc = "idle"

\* solve has returned and the caller calls it again on the same manager with
\* the same arguments: the netlist is either the object the previous call was
\* given (left as that call's in-place writes made it) or a copy the caller
\* took of it beforehand
SolveAgain ==
  /\ pc = "done"
  /\ runtime.cleanups < MaxSolves
  /\ \E nl \in {netlist, inp.netlist} :
       /\ inp' = [inp EXCEPT !.netlist = nl]
       /\ netlist' = nl
  /\ loc' = NewLocals
  /\ setup_futures' = << >>
  /\ future_steps' = << >>
  /\ futures' = << >>
  /\ pc' = "idle"
  /\ UNCHANGED <<self, actors, runtime, log>>

\* solve on a ray_manager whose Ray was shut down by the cleanup of its
\* previous solve: ray.init() is only called in __init__ (line 270), so
\* lp.ray_actor.remote() at line 284 meets a Ray that is not initialized, and
\* Ray either starts itself or raises
RaySolveBeginCold ==
  /\ pc = "idle"
  /\ inp.backend = "ray"
  /\ ~runtime.ray
  /\ \/ /\ Becomes(RayCreateActors(SolvePrologue(Cur, inp), inp.nproc))
        /\ setup_futures' = [i \in Range0(inp.nproc) |->
                               [st |-> "pending", val |-> None]]
        /\ runtime' = [runtime EXCEPT !.ray = TRUE, !.live = Range0(inp.nproc)]
        /\ pc' = "setup_wait"
     \/ /\ LET S == SolvePrologue(Cur, inp)
           IN  Becomes([S EXCEPT !.actors = << >>,
                                 !.loc.raised = "runtime"])
        /\ setup_futures' = setup_futures
        /\ runtime' = runtime
        /\ pc' = "failed"
  /\ UNCHANGED <<inp, future_steps, futures, log>>

NextAgain == Next \/ SolveAgain \/ RaySolveBeginCold

SpecAgain == InitAgain /\ [][NextAgain]_vars

(* -------- one generic_actor alone, with arbitrary event indicators ---- *)
\* an actor of 1..EvCells cells after setup
InitEvents ==
  /\ InitWith({1}, {1}, {[r \in Range0(1) |-> 0]}, {1})
  /\ inp.backend = "casadi"
  /\ \E n \in 1 .. EvCells :
       actors = [i \in Range0(1) |->
                   ActorSetup(NewActor, n, 0, 1, VariableNames(<< >>), 4, 1)]
  /\ pc = "harness"

\* the indicator matrices events_fn may evaluate to
EventMatrices(ncells) == [Range0(NEvents) -> [Range0(ncells) -> {-1, 0, 1}]]

\* generic_actor.step with step_fn returning any indicator values
StepAny ==
  /\ pc = "harness"
  /\ actors[0].nsteps < MaxCalls
  /\ LET a == actors[0]
         n == Size(a.step_solutions)
         r == StepFn(a, [j \in Range0(n) |-> [Current |-> 0, htc |-> 1]])
     IN  \E ev \in EventMatrices(n) :
           actors' = [actors EXCEPT ![0] = StepWith(a, [r EXCEPT !.events_eval = ev])]
  /\ UNCHANGED <<inp, netlist, self, loc, setup_futures, future_steps, futures,
                 runtime, log, pc>>

\* generic_actor.setup is called again on the actor
SetupAgain ==
  /\ pc = "harness"
  /\ actors[0].nsteps > 0
  /\ LET a == actors[0]
     IN  actors' = [actors EXCEPT ![0] =
                      ActorSetup(a, Size(a.step_solutions), a.I_init, a.htc_init,
                                 a.variable_names, a.soc, 1)]
  /\ UNCHANGED <<inp, netlist, self, loc, setup_futures, future_steps, futures,
                 runtime, log, pc>>

NextEvents == StepAny \/ SetupAgain

SpecEvents == InitEvents /\ [][NextEvents]_vars

(* --------- the loop body alone, on arbitrary collected values --------- *)
\* solve on casadi_manager has stepped iteration 0 of a two-step protocol
InitRi ==
  /\ \E n \in 1 .. RiCells :
       /\ inp = [backend |-> "casadi", netlist |-> MakeNetlist(n, 30),
                 nproc |-> 1, htc |-> [c \in Range0(n) |-> 1],
                 protocol |-> [r \in Range0(2) |-> 30],
                 dt |-> 1, initial_soc |-> 4,
                 output_variables |-> << >>,
                 v_cut_lower |-> 2, v_cut_higher |-> 7]
       /\ LET S0 == [self |-> NewManager, loc |-> NewLocals,
                     netlist |-> inp.netlist, actors |-> << >>]
              S == CasadiStepActors(
                     CasadiSetupActors(SolvePrologue(S0, inp), inp))
          IN  /\ self = S.self
              /\ loc = S.loc
              /\ netlist = S.netlist
              /\ actors = S.actors
  /\ runtime = [ray |-> FALSE, client |-> "none", live |-> {}, cleanups |-> 0]
  /\ setup_futures = << >>
  /\ future_steps = << >>
  /\ futures = << >>
  /\ log = << >>
  /\ pc = "collect"

\* get_actor_output collects any terminal and open-circuit voltages, the
\* circuit solve before it having given any applied currents
CollectAny ==
  /\ pc = "collect"
  /\ \E v \in [Range0(loc.Nspm) -> {4}],
        ocv \in [Range0(loc.Nspm) -> {3, 4, 6}],
        i_app \in [Range0(loc.Nspm) -> (-MaxAmp) .. MaxAmp] :
       self' = [self EXCEPT !.output[0][0] = v,
                            !.output[1][0] = ocv,
                            !.shm_i_app[0] = i_app]
  /\ pc' = "body"
  /\ UNCHANGED <<inp, netlist, loc, actors, setup_futures, future_steps,
                 futures, runtime, log>>

NextRi == CollectAny \/ Body

SpecRi == InitRi /\ [][NextRi]_vars

(* ---------------- split_models alone, on larger packs ----------------- *)
InitSplit ==
  /\ InitWith(1 .. MaxSplit, 1 .. MaxSplit, {[r \in Range0(1) |-> 0]}, {1})
  /\ actors = << >>
  /\ pc = "idle"

\* solve, lines 125-131: the maps, Nspm and the call of split_models
SplitOnly ==
  /\ pc = "idle"
  /\ LET Nspm == Cardinality(DescMap(netlist, <<"V">>))
     IN  /\ self' = SplitModels(inp.backend, self, Nspm, inp.nproc, inp.htc)
         /\ loc' = [loc EXCEPT !.Nspm = Nspm]
  /\ pc' = "split"
  /\ UNCHANGED <<inp, netlist, actors, setup_futures, future_steps, futures,
                 runtime, log>>

SpecSplit == InitSplit /\ [][SplitOnly]_vars

(* ------------------------------- claims ------------------------------- *)
\* some cell of a row of terminal voltages is outside the cut-offs
OutOfRange(row) ==
  \E c \in DOMAIN row : row[c] < inp.v_cut_lower \/ row[c] > inp.v_cut_higher

\* row k of the output buffer holds what the actors last reported
RowCollected(k) ==
  \A i \in DOMAIN actors : \A j \in DOMAIN self.split_index[i] :
    \A v \in DOMAIN self.output :
       self.output[v][k][self.split_index[i][j]] = actors[i].var_eval[v][j]

Started == pc \notin {"idle", "setup_wait", "split", "harness", "collect"}

\* C1: the loop stops at the first iteration whose collected terminal
\* voltages have a cell strictly below the lower or strictly above the upper
\* cut-off, after that iteration's outputs, time and pack terminal voltage
\* were recorded (k + 1 rows are returned); without a breach it runs all
\* Nsteps iterations.
C1_StopsAtFirstBreach ==
  /\ (Started /\ pc # "failed") =>
        \A j \in Range0(loc.step) : ~OutOfRange(self.output[0][j])
  /\ pc \in {"finalize", "done"} =>
        /\ OutOfRange(self.output[0][loc.step]) \/ loc.step = loc.Nsteps - 1
        /\ RowCollected(loc.step)
        /\ OutOfRange(self.output[0][loc.step]) =>
              /\ Len(loc.record_times) = loc.step + 1
              /\ Len(loc.V_terminal) = loc.step + 1
  /\ (pc = "done" /\ OutOfRange(self.output[0][loc.step])) =>
        \A k \in DOMAIN self.all_output :
           Size(self.all_output[k]) = loc.step + 1

\* C2: on ray_manager and dask_manager, whenever step_actors has returned at
\* iteration k (and while the outputs are collected), every worker has
\* completed exactly k + 1 step calls on exactly the cells of its own
\* partition, under every interleaving of the workers.
C2_WorkersInLockstep ==
  (Remote /\ pc \in {"output", "output_wait", "body"}) =>
     \A i \in DOMAIN actors :
        /\ actors[i].nsteps = loc.step + 1
        /\ future_steps[i].st = "ok"
        /\ DOMAIN actors[i].step_solutions = DOMAIN self.split_index[i]
        /\ \A j \in DOMAIN actors[i].step_solutions :
              actors[i].step_solutions[j] # None

C2_Witness ==
  /\ Remote
  /\ pc = "output"
  /\ inp.nproc = 3
  /\ loc.step = 2

\* C3: for 1 <= W <= N, split_models of ray_manager and dask_manager gives W
\* groups that are non-empty, contiguous, disjoint and, in worker order,
\* make up 0..N-1 with each cell once; spm_per_worker sums to N and htc is
\* split at the same boundaries; casadi_manager gives the one group 0..N-1.
C3_Partition ==
  pc = "split" =>
    LET N == loc.Nspm
        W == inp.nproc
        si == self.split_index
        last(i) == si[i][Size(si[i]) - 1]
    IN  IF inp.backend = "casadi"
        THEN /\ DOMAIN si = {0}
             /\ si[0] = [c \in Range0(N) |-> c]
             /\ self.htc[0] = inp.htc
        ELSE W <= N =>
             /\ DOMAIN si = Range0(W)
             /\ \A i \in Range0(W) :
                  /\ Size(si[i]) >= 1
                  /\ DOMAIN si[i] = Range0(Size(si[i]))
                  /\ \A j \in Range0(Size(si[i]) - 1) : si[i][j + 1] = si[i][j] + 1
                  /\ self.spm_per_worker[i] = Size(si[i])
                  /\ DOMAIN self.htc[i] = DOMAIN si[i]
                  /\ \A j \in DOMAIN si[i] : self.htc[i][j] = inp.htc[si[i][j]]
             /\ si[0][0] = 0
             /\ \A i \in Range0(W - 1) : si[i + 1][0] = last(i) + 1
             /\ last(W - 1) = N - 1
             /\ \A c \in Range0(N) :
                  Cardinality({x \in Range0(W) \X Range0(N) :
                                 x[2] \in DOMAIN si[x[1]] /\ si[x[1]][x[2]] = c}) = 1
             /\ SumTo(self.spm_per_worker, W) = N

\* five cells over three ray workers: sections of 2, 2 and 1
C3_Witness ==
  /\ pc = "split"
  /\ inp.backend = "ray"
  /\ loc.Nspm = 5
  /\ inp.nproc = 3
  /\ self.spm_per_worker = [i \in Range0(3) |-> IF i < 2 THEN 2 ELSE 1]

\* C4: the first check_events call after setup returns False whatever the
\* indicators are; on every later call the reported matrix is True at [e, c]
\* exactly when sign(previous[e, c]) * sign(current[e, c]) < 0, and the
\* returned flag is the OR of all its entries.
C4_CheckEvents ==
  [][\A i \in DOMAIN actors :
       (i \in DOMAIN actors' /\ actors'[i].nsteps = actors[i].nsteps + 1) =>
          IF actors[i].nsteps = 0
          THEN actors'[i].ret = FALSE
          ELSE LET prev == actors[i].events_eval
                   cur == actors'[i].events_eval
                   m == actors'[i].event_change
               IN  /\ DOMAIN m = DOMAIN cur
                   /\ \A e \in DOMAIN cur :
                        /\ DOMAIN m[e] = DOMAIN cur[e]
                        /\ \A c \in DOMAIN cur[e] :
                             m[e][c] = (Sign(prev[e][c]) * Sign(cur[e][c]) < 0)
                   /\ actors'[i].ret =
                        (\E e \in DOMAIN m : \E c \in DOMAIN m[e] : m[e][c])]_vars

\* a later call that reports one crossing, next to an entry that is zero and
\* an entry that did not cross
C4_Witness ==
  /\ pc = "harness"
  /\ actors[0].nsteps = 2
  /\ actors[0].ret
  /\ actors[0].event_change = [e \in Range0(2) |-> [c \in Range0(2) |-> e = 1 /\ c = 0]]
  /\ actors[0].events_eval[0][0] = 0
  /\ actors[0].events_eval[0][1] = 1

\* C5: after get_actor_output(step) at iteration k, column split_index[i][j]
\* of row k of the output buffer holds what worker i reported for its j-th
\* cell, whatever the order of the workers' replies, and every row after k
\* is still all zeros.
C5_OutputSlices ==
  pc = "body" =>
    /\ \A i \in DOMAIN actors : \A j \in DOMAIN actors[i].step_solutions :
         \A v \in DOMAIN self.output :
           self.output[v][loc.step][self.split_index[i][j]] =
             VarValue(self.variable_names[v + 1], actors[i].step_solutions[j][1])
    /\ \A v \in DOMAIN self.output : \A r \in DOMAIN self.output[v] :
         r > loc.step => \A c \in DOMAIN self.output[v][r] : self.output[v][r][c] = 0

\* three cells on two workers, second of three iterations
C5_Witness ==
  /\ pc = "body"
  /\ inp.backend = "dask"
  /\ inp.nproc = 2
  /\ loc.Nspm = 3
  /\ loc.Nsteps = 3
  /\ loc.step = 1

\* C6: a solve through ray_manager or dask_manager with W <= Nspm workers
\* returns the same result series (same rows, same per-cell currents and
\* output variables) as a solve through casadi_manager on the same netlist,
\* protocol, htc and parameters.
C6_BackendEquivalence ==
  (pc = "done" /\ Remote /\ inp.nproc <= loc.Nspm) =>
     self.all_output = CasadiSolve(inp)

\* a full three-step ray solve of three cells on two workers
C6_Witness ==
  /\ pc = "done"
  /\ inp.backend = "ray"
  /\ inp.nproc = 2
  /\ loc.Nspm = 3
  /\ loc.step = 2

\* C7 (as claimed): when a worker's step or output call raises during solve,
\* cleanup has been invoked and the worker resources are released when the
\* failure leaves solve.
C7_CleanupOnFailure ==
  (Remote /\ pc = "failed" /\ loc.raised \in {"step", "output"}) =>
     /\ runtime.cleanups > 0
     /\ runtime.live = {}
     /\ ~runtime.ray
     /\ runtime.client # "up"

\* the netlist as the last completed iteration left it
NetlistAfter(k) ==
  IF k = 0 THEN netlist = inp.netlist
  ELSE /\ \A r \in loc.I_map : netlist[r].value = inp.protocol[k - 1]
       /\ \A r \in loc.V_map :
            netlist[r].value = self.output[1][k - 1][Rank(loc.V_map, r)]

\* C8: if a worker's step fails at iteration k, the failure propagates out of
\* solve (solve never goes on to get_actor_output), no output of iteration k
\* is written, the netlist is not updated for iteration k, no later
\* iteration runs and the buffers stay as iterations 0..k-1 left them.
C8_StepAtomic ==
  /\ [](/\ (Remote /\ pc \in {"output", "output_wait", "body"}) =>
              \A i \in DOMAIN future_steps : future_steps[i].st = "ok"
        /\ (pc = "failed" /\ loc.raised = "step") =>
              /\ \A v \in DOMAIN self.output :
                   \A c \in DOMAIN self.output[v][loc.step] :
                      self.output[v][loc.step][c] = 0
              /\ \A r \in Range0(loc.step) : self.output[1][r][0] # 0
              /\ NetlistAfter(loc.step)
              /\ Len(loc.record_times) = loc.step
              /\ Len(loc.V_terminal) = loc.step
              /\ self.timestep = loc.step
              /\ self.all_output = None)
  /\ [][/\ (pc' = "failed" /\ pc # "failed" /\ loc'.raised = "step") =>
              (self' = self /\ netlist' = netlist /\ log' = log)
        /\ pc = "failed" =>
              (pc' = "failed" /\ self' = self /\ netlist' = netlist
               /\ loc' = loc /\ log' = log)]_vars

\* a step fails in the second iteration of a two-worker solve
C8_Witness ==
  /\ pc = "failed"
  /\ loc.raised = "step"
  /\ Remote
  /\ inp.nproc = 2
  /\ loc.step = 1
  /\ actors[0].nsteps = 2

Logged(k) == \E n \in 1 .. Len(log) : log[n] = k

\* C9: event flags are diagnostic only: step_actors writes nothing to the
\* buffers or the netlist and always goes on to get_actor_output (unless a
\* worker's call fails), the loop ends only on a voltage cut-off or when the
\* protocol is exhausted, and a warning is logged for a step exactly when at
\* least one worker's flag is true.
C9_EventsDiagnostic ==
  /\ [](pc = "output" =>
          (Logged(self.timestep) <=> \E i \in DOMAIN actors : actors[i].ret))
  /\ [][/\ (pc \in {"loop", "step_wait"} /\ pc' \notin {"loop", "step_wait"}) =>
              \/ /\ pc' = "output"
                 /\ self' = self
                 /\ netlist' = netlist
                 /\ [loc' EXCEPT !.events = None, !.get_i = 0] =
                      [loc EXCEPT !.events = None, !.get_i = 0]
              \/ /\ pc' = "failed"
                 /\ loc'.raised = "step"
                 /\ Remote => \E i \in DOMAIN future_steps :
                                 future_steps[i].st = "err"
        /\ (pc' = "finalize" /\ pc # "finalize") =>
              /\ pc = "body"
              /\ \/ OutOfRange(self.output[0][loc.step])
                 \/ loc.step = loc.Nsteps - 1]_vars

\* one of two workers flagged an event in the second step, the warning was
\* logged and the loop is in its third iteration
C9_Witness ==
  /\ pc = "loop"
  /\ Remote
  /\ inp.nproc = 2
  /\ loc.step = 2
  /\ self.timestep = 2
  /\ Logged(1)
  /\ actors[0].ret
  /\ ~actors[1].ret

\* C10: when solve returns, every series of the result has as many rows as
\* iterations were executed (k + 1), and Pack current [A] is the first k + 1
\* protocol setpoints in order.
C10_EqualLengths ==
  pc = "done" =>
    LET n == loc.step + 1
        out == self.all_output
    IN  /\ \A i \in DOMAIN actors : actors[i].nsteps = n
        /\ {"Time [s]", "Pack current [A]", "Pack terminal voltage [V]",
            "Cell current [A]", "Terminal voltage [V]",
            "Measured battery open circuit voltage [V]",
            "Cell temperature [K]"} = DOMAIN out
        /\ \A k \in DOMAIN out : Size(out[k]) = n
        /\ out["Pack current [A]"] = [r \in Range0(n) |-> inp.protocol[r]]
        /\ \A k \in DOMAIN out \ {"Time [s]", "Pack current [A]",
                                  "Pack terminal voltage [V]"} :
             /\ DOMAIN out[k] = Range0(n)
             /\ \A r \in Range0(n) : DOMAIN out[k][r] = Range0(loc.Nspm)

\* C11: the resistance written to the netlist for a cell in an iteration is
\* (OCV - V) / I when |I| >= 1e-6 and exactly 1e-12 when |I| < 1e-6 (I = 0
\* included), I being the current applied to that cell in that iteration; it
\* depends on that cell's OCV, V and I only.
C11_Resistance ==
  [][pc = "body" =>
       \A c \in Range0(loc.Nspm) :
          LET I == self.shm_i_app[loc.step][c]
              num == self.output[1][loc.step][c] - self.output[0][loc.step][c]
              R == netlist'[MapRows(loc.Ri_map)[c]].value
          IN  IF Abs(I) < ICutoff
              THEN R = [n |-> 1, d |-> 1, e |-> -12]
              ELSE /\ R.e = 7
                   /\ R.d > 0
                   /\ R.n * I = num * R.d]_vars

\* two cells, one exactly at the threshold with a negative current, the
\* other at rest, after the netlist was updated
C11_Witness ==
  /\ pc = "loop"
  /\ loc.Nspm = 2
  /\ self.shm_i_app[0][0] = -ICutoff
  /\ self.shm_i_app[0][1] = 0
  /\ self.output[1][0][0] = 6
  /\ netlist[MapRows(loc.Ri_map)[0]].value = [n |-> -1, d |-> 5, e |-> 7]
  /\ netlist[MapRows(loc.Ri_map)[1]].value = RiFloor

\* the rows of a netlist whose desc holds the pattern
RowsOf(nl, pat) == {r \in 1 .. Len(nl) : StrFind(nl[r].desc, pat) > -1}

\* C12: throughout solve the elements of the netlist and their desc, node1
\* and node2 are unchanged; an iteration changes only the value of the
\* voltage-source rows (to the cell OCVs), of the Ri rows (to the derived
\* resistances) and of the current-source rows (to the protocol setpoint);
\* the value of every other row is never modified.
C12_NetlistFrame ==
  [][/\ Len(netlist') = Len(netlist)
     /\ \A r \in 1 .. Len(netlist) :
          /\ netlist'[r].desc = netlist[r].desc
          /\ netlist'[r].node1 = netlist[r].node1
          /\ netlist'[r].node2 = netlist[r].node2
          /\ r \notin (RowsOf(netlist, <<"V">>) \cup RowsOf(netlist, <<"R", "i">>)
                        \cup RowsOf(netlist, <<"I">>)) =>
                netlist'[r].value = netlist[r].value
     /\ netlist' # netlist => pc = "body"
     /\ (pc = "body" /\ pc' # "body") =>
          /\ \A r \in RowsOf(netlist, <<"I">>) :
                netlist'[r].value = inp.protocol[loc.step]
          /\ \A c \in Range0(loc.Nspm) :
                /\ netlist'[MapRows(RowsOf(netlist, <<"V">>))[c]].value =
                      self.output[1][loc.step][c]
                /\ netlist'[MapRows(RowsOf(netlist, <<"R", "i">>))[c]].value =
                      TempRi(self.output[1][loc.step], self.output[0][loc.step],
                             self.shm_i_app[loc.step])[c]]_vars

\* three iterations on three cells have updated the netlist; the busbar
\* resistors are as supplied
C12_Witness ==
  /\ pc = "done"
  /\ loc.Nspm = 3
  /\ loc.step = 2
  /\ \A r \in RowsOf(netlist, <<"V">>) : netlist[r].value # inp.netlist[r].value
  /\ \A r \in RowsOf(netlist, <<"R", "b">>) : netlist[r].value = inp.netlist[r].value
  /\ \A r \in RowsOf(netlist, <<"I">>) : netlist[r].value = inp.protocol[2]

\* C13: a second solve on the same manager with the same arguments returns
\* the output the first one returned, also when the netlist it is given is
\* the very object the first call was given
C13_Idempotent ==
  [][(pc = "finalize" /\ pc' = "done" /\ runtime.cleanups >= 1) =>
       self'.all_output = self.all_output]_vars

\* C14: the cleanup call of solve never raises: whatever happens while the
\* workers are released, solve goes on to return its result with every
\* worker released and the runtime shut down
C14_TeardownNeverRaises ==
  [][(pc = "finalize" /\ pc' # pc) =>
       /\ pc' = "done"
       /\ runtime'.live = {}
       /\ ~runtime'.ray
       /\ runtime'.client # "up"]_vars

\* the positions of solve inside the stepping loop
InLoop == pc \in {"loop", "step_wait", "output", "output_wait", "body"}

\* C15: on every backend the setup of every worker has completed before the
\* first step call is sent: while solve is in its loop every actor is set up
\* (and its setup future resolved), a step only ever runs on an actor that is
\* set up, and from the loop's start until cleanup the workers stay the same
C15_SetupBeforeStep ==
  /\ [](InLoop => \A i \in DOMAIN actors :
                    /\ actors[i].ready
                    /\ Remote => setup_futures[i].st = "ok")
  /\ [][\A i \in DOMAIN actors :
          (i \in DOMAIN actors' /\ actors'[i].nsteps > actors[i].nsteps) =>
             /\ actors[i].ready
             /\ Remote => \A j \in DOMAIN setup_futures :
                             setup_futures[j].st = "ok"]_vars
  /\ [][InLoop =>
          /\ DOMAIN actors' = DOMAIN actors
          /\ pc' # "done" => runtime'.live = runtime.live]_vars

C15_Witness ==
  /\ Remote
  /\ pc = "step_wait"
  /\ inp.nproc = 3
  /\ loc.step = 0
  /\ future_steps[1].st = "ok"
  /\ future_steps[0].st = "pending"
  /\ \A i \in DOMAIN setup_futures : setup_futures[i].st = "ok"

\* the parallel runtime of the manager's backend is initialized
RuntimeUp == IF inp.backend = "ray" THEN runtime.ray ELSE runtime.client = "up"

\* C16: in every solve of a ray or dask manager, however many came before on
\* the same manager, the runtime is initialized at the point where the
\* workers are created (Ray before lp.ray_actor.remote(), the dask client by
\* setup_actors itself) and while they are set up and stepped, and it is
\* shut down with no worker left when the solve has returned
C16_RuntimePerSolve ==
  /\ [][(pc = "idle" /\ pc' # "idle" /\ inp.backend = "ray") => runtime.ray]_vars
  /\ []((Remote /\ (pc = "setup_wait" \/ InLoop)) => RuntimeUp)
  /\ []((Remote /\ pc = "done") => (~RuntimeUp /\ runtime.live = {}))

\* C17: on a call of check_events that is not the first after setup, an
\* indicator that was nonzero on the previous step and is exactly zero on
\* this one is reported as fired at its entry [e, c], and the call returns
\* True
C17_ZeroIsReported ==
  [][\A i \in DOMAIN actors :
       (/\ i \in DOMAIN actors'
        /\ actors'[i].nsteps = actors[i].nsteps + 1
        /\ actors[i].nsteps > 0) =>
          \A e \in DOMAIN actors'[i].events_eval :
            \A c \in DOMAIN actors'[i].events_eval[e] :
               (actors[i].events_eval[e][c] # 0 /\ actors'[i].events_eval[e][c] = 0) =>
                  /\ actors'[i].event_change[e][c]
                  /\ actors'[i].ret]_vars

\* the inputs the j-th cell of worker i is due at the current loop index
DueInputs(i) ==
  [j \in DOMAIN self.split_index[i] |->
     [Current |-> self.shm_i_app[loc.step][self.split_index[i][j]],
      htc |-> inp.htc[self.split_index[i][j]]]]

\* C18: at every call of step_actors self.timestep is the loop index, and
\* the inputs built for worker i are, cell by cell in partition order, row
\* step of the applied-current buffer at the cell's own column and the cell's
\* own heat-transfer coefficient; every worker steps its cells with them
C18_StepInputs ==
  [][/\ (pc = "loop" /\ pc' \in {"step_wait", "output"}) =>
          /\ self.timestep = loc.step
          /\ \A i \in DOMAIN actors :
                /\ self.htc[i] = [j \in DOMAIN self.split_index[i] |-> DueInputs(i)[j].htc]
                /\ BuildInputs(self, Size(actors))[i] = DueInputs(i)
          /\ IF Remote
             THEN loc'.inputs = [i \in DOMAIN actors |-> DueInputs(i)]
             ELSE actors'[0].step_solutions =
                    StepFn(actors[0], DueInputs(0)).step_solutions
     /\ \A i \in DOMAIN actors :
          (/\ pc = "step_wait"
           /\ i \in DOMAIN actors'
           /\ actors'[i].nsteps = actors[i].nsteps + 1) =>
             actors'[i].step_solutions =
               StepFn(actors[i], DueInputs(i)).step_solutions]_vars

\* the second worker of two has stepped its one cell, the second of the pack,
\* in the third iteration, with that cell's own coefficient
C18_Witness ==
  /\ Remote
  /\ pc = "step_wait"
  /\ loc.step = 2
  /\ self.timestep = 2
  /\ inp.nproc = 2
  /\ loc.Nspm = 2
  /\ inp.htc[1] = 2
  /\ loc.inputs[1] = [j \in Range0(1) |->
                        [Current |-> self.shm_i_app[2][1], htc |-> 2]]
  /\ future_steps[1].st = "ok"
  /\ actors[1].nsteps = 3

\* the applied currents a circuit solve of the netlist nl gives the cells
AppliedBy(nl) ==
  LET I == SolveCircuit(nl).I_batt IN [c \in DOMAIN I |-> 0 - I[c]]

\* C19: row 0 of the applied-current buffer is the negated branch currents
\* of the circuit solve of the netlist as supplied, and stays so; an
\* iteration k that is not the last protocol step records a pack terminal
\* voltage and writes row k + 1, both from the one circuit solve of the
\* netlist as iteration k updated it, leaving the other rows alone; whenever
\* an iteration records a pack terminal voltage it is that solve's
C19_AppliedCurrentRows ==
  /\ []((Started /\ loc.raised # "runtime") =>
          self.shm_i_app[0] = AppliedBy(inp.netlist))
  /\ [][pc = "body" =>
          LET k == loc.step
              sol == SolveCircuit(netlist')
          IN  /\ k < loc.Nsteps - 1 =>
                   /\ pc' # "failed"
                   /\ self'.shm_i_app[k + 1] = AppliedBy(netlist')
                   /\ \A r \in DOMAIN self.shm_i_app :
                        r # k + 1 => self'.shm_i_app[r] = self.shm_i_app[r]
                   /\ Len(loc'.V_terminal) = k + 1
              /\ Len(loc'.V_terminal) > Len(loc.V_terminal) =>
                   /\ Len(loc.V_terminal) = k
                   /\ loc'.V_terminal[k + 1] = sol.V_node[loc.Terminal_Node[0]]
                   /\ \A r \in 1 .. k : loc'.V_terminal[r] = loc.V_terminal[r]]_vars

\* the second of three iterations has written row 2 with currents that
\* differ from those of rows 0 and 1
C19_Witness ==
  /\ pc = "loop"
  /\ loc.step = 2
  /\ loc.Nsteps = 3
  /\ loc.Nspm = 2
  /\ Len(loc.V_terminal) = 2
  /\ self.shm_i_app[2] = AppliedBy(netlist)
  /\ self.shm_i_app[2] # self.shm_i_app[1]
  /\ self.shm_i_app[1] # self.shm_i_app[0]
  /\ \E c \in Range0(2) : self.shm_i_app[2][c] # 0

\* C20: after every check_events call, first or later, event or not, the
\* stored previous vector is the indicator vector of the step just taken; so
\* on a later call an entry that was reported on the previous step is
\* reported again exactly when its sign flips again, and not when its sign
\* is unchanged
C20_SlidingWindow ==
  [][\A i \in DOMAIN actors :
       (i \in DOMAIN actors' /\ actors'[i].nsteps = actors[i].nsteps + 1) =>
          /\ actors'[i].last_events = actors'[i].events_eval
          /\ actors[i].nsteps > 0 =>
                /\ actors[i].last_events = actors[i].events_eval
                /\ actors[i].nsteps > 1 =>
                     \A e \in DOMAIN actors'[i].events_eval :
                       \A c \in DOMAIN actors'[i].events_eval[e] :
                         LET old == Sign(actors[i].events_eval[e][c])
                             new == Sign(actors'[i].events_eval[e][c])
                         IN  actors[i].event_change[e][c] =>
                               /\ old = -new => actors'[i].event_change[e][c]
                               /\ old = new => ~actors'[i].event_change[e][c]]_vars

\* the third call reports an entry whose sign flipped, next to one that did
\* not, and has stored its own indicator vector
C20_Witness ==
  /\ pc = "harness"
  /\ actors[0].nsteps = 3
  /\ Size(actors[0].step_solutions) = 2
  /\ actors[0].last_events = actors[0].events_eval
  /\ actors[0].events_eval[0][0] = -1
  /\ actors[0].event_change[0][0]
  /\ actors[0].events_eval[0][1] = 1
  /\ ~actors[0].event_change[0][1]
  /\ actors[0].ret

\* C21: every iteration of the loop writes the buffers at rows within
\* 0..Nsteps-1 only, so none ends in an index error: row step + 1 of the
\* applied-current buffer is written in the iterations with step < Nsteps - 1
\* and the buffer is left alone in the last protocol iteration; and every
\* executed iteration re-solves the circuit and records its time and pack
\* terminal voltage
C21_IndexBounds ==
  [][pc = "body" =>
       LET k == loc.step
       IN  /\ pc' # "failed"
           /\ DOMAIN self'.shm_i_app = Range0(loc.Nsteps)
           /\ \A v \in DOMAIN self'.output :
                DOMAIN self'.output[v] = Range0(loc.Nsteps)
           /\ IF k < loc.Nsteps - 1
              THEN self'.shm_i_app[k + 1] = AppliedBy(netlist')
              ELSE self'.shm_i_app = self.shm_i_app
           /\ Len(loc'.record_times) = k + 1
           /\ Len(loc'.V_terminal) = k + 1]_vars

====
